---- MODULE Spec2Model ----
(***************************************************************************)
(* Model of Progs/individual.py: a command-line utility that keeps travel  *)
(* routes in an SQLite file with two tables, start(name_id, start_point)   *)
(* and route(route_id, name_id, first_station, second_station).            *)
(*                                                                         *)
(* The store is the committed content of the file.  Every invocation of    *)
(* main is a process p: it parses its command line, runs create_db, then   *)
(* one repository operation, then (for display/select) display_routes.     *)
(* add_route is split at its four statements (lookup SELECT, INSERT into   *)
(* start, INSERT into route, commit) so that invocations can interleave.   *)
(*                                                                         *)
(* Spec     : invocations run one after another (one process at a time).   *)
(* SpecConc : invocations of different processes interleave; SQLite's      *)
(*            file locking (one RESERVED writer, readers see committed     *)
(*            data only) is modelled by the variable lock.                 *)
(***************************************************************************)
EXTENDS Integers, Sequences, FiniteSets, TLC

\* ------------------------------------------------------------ bounds
MaxRoutes == 3          \* at most this many add commands are started
NProcs == 2             \* process slots (invocations that may coexist)

Procs == 1..NProcs
Firsts == {"Moscow", "Kazan"}               \* values given to --first
Seconds == {"Kazan", "kazan", "Omsk"}       \* values given to --second
Commands == {"", "add", "display", "select"}

\* ------------------------------------------------------------ state
VARIABLES
    db,         \* the store file: [tables, start, route], committed rows
    lock,       \* process holding SQLite's RESERVED (writer) lock, 0 if none
    pc,         \* position of each invocation in main / add_route
    args,       \* parsed command line: [command, first, second]
    row,        \* add_route: result of cursor.fetchone()
    name_id,    \* add_route: the local name_id
    txn,        \* add_route: rows inserted but not yet committed
    routes,     \* list returned by select_all / select_route
    output,     \* what display_routes / print_help printed
    calls,      \* functions main has called so far, in order
    conns,      \* connections currently open in the invocation
    opened,     \* connections opened so far by the invocation
    added       \* (first, second) pairs whose add command has completed

vars == <<db, lock, pc, args, row, name_id, txn, routes, output, calls,
          conns, opened, added>>

None == <<>>
NoArgs == [command |-> "", first |-> "", second |-> ""]
NoTxn == [start |-> <<>>, route |-> <<>>]
NoOutput == [help |-> FALSE, message |-> "", table |-> <<>>]

\* ------------------------------------------------------------ SQL helpers
Max(S) == CHOOSE m \in S : \A x \in S : x <= m

\* INTEGER PRIMARY KEY AUTOINCREMENT: one more than the largest id ever used
\* (no row is ever deleted, so that is the largest id present).
AutoIncrement(ids) == IF ids = {} THEN 1 ELSE Max(ids) + 1

NameIds(rows) == {rows[i].name_id : i \in 1..Len(rows)}
RouteIds(rows) == {rows[i].route_id : i \in 1..Len(rows)}

\* Faulty variant of CreateTableIfNotExists: DROP TABLE IF EXISTS, then CREATE TABLE.
CreateTable_dropping(store, name) ==
    [store EXCEPT !.tables = @ \cup {name}, ![name] = <<>>]

\* CREATE TABLE IF NOT EXISTS name (...): a no-op on an existing table.
CreateTableIfNotExists(store, name) ==
    [store EXCEPT !.tables = @ \cup {name}]

\* create_db: both CREATE TABLE IF NOT EXISTS statements (autocommitted DDL).
create_db(store) ==
    CreateTableIfNotExists(CreateTableIfNotExists(store, "start"), "route")

\* Faulty variant of SelectNameId: a lookup that never matches (wrong column compared).
SelectNameId_miss(store, first) == <<>>

\* Faulty variant of SelectNameId: the WHERE clause is missing.
SelectNameId_any(store, first) ==
    [i \in 1..Len(store.start) |-> <<store.start[i].name_id>>]

\* SELECT name_id FROM start WHERE start_point = ?   (rows in rowid order)
SelectNameId(store, first) ==
    LET Match(s) == s.start_point = first
        hits == SelectSeq(store.start, Match)
    IN  [i \in 1..Len(hits) |-> <<hits[i].name_id>>]

\* cursor.fetchone(): the first row of the result, or None.
fetchone(rows) == IF rows = <<>> THEN None ELSE Head(rows)

\* Faulty variant of lastrowid: off by one.
lastrowid_off(inserted) == inserted[Len(inserted)].name_id + 1

\* cursor.lastrowid: the rowid of the row the connection inserted last.
lastrowid(inserted) == inserted[Len(inserted)].name_id

\* SELECT start.start_point, route.first_station, route.second_station
\* FROM route INNER JOIN start ON start.name_id = route.name_id
RECURSIVE InnerJoin(_, _)
InnerJoin(routeRows, startRows) ==
    IF routeRows = <<>> THEN <<>>
    ELSE LET r == Head(routeRows)
             On(s) == s.name_id = r.name_id
             m == SelectSeq(startRows, On)
         IN  [i \in 1..Len(m) |->
                 <<m[i].start_point, r.first_station, r.second_station>>]
             \o InnerJoin(Tail(routeRows), startRows)

\* The list comprehension that turns result rows into dictionaries.
ToDicts(rows) ==
    [i \in 1..Len(rows) |->
        [start_point |-> rows[i][1],
         first_station |-> rows[i][2],
         second_station |-> rows[i][3]]]

select_all(store) == ToDicts(InnerJoin(store.route, store.start))

\* Faulty variant of Where: a case-insensitive comparison (COLLATE NOCASE).
Fold(str) == IF str = "Kazan" THEN "kazan" ELSE str
Where_nocase(routeRows, find_end) ==
    LET Match(r) == Fold(r.second_station) = Fold(find_end)
    IN  SelectSeq(routeRows, Match)

\* ... WHERE route.second_station = ?   (TEXT, BINARY collation: exact match)
Where(routeRows, find_end) ==
    LET Match(r) == r.second_station = find_end
    IN  SelectSeq(routeRows, Match)

select_route(store, find_end) ==
    ToDicts(InnerJoin(Where(store.route, find_end), store.start))

\* display_routes: a numbered table of (start_point, second_station), or the
\* "list is empty" message.
display_routes(list) ==
    IF list # <<>>
    THEN [help |-> FALSE, message |-> "",
          table |-> [i \in 1..Len(list) |->
                        <<i, list[i].start_point, list[i].second_station>>]]
    ELSE [help |-> FALSE, message |-> "empty", table |-> <<>>]

\* Faulty variant of RepositoryOp: display and select dispatch to each other's operation.
RepositoryOp_swapped(command) ==
    CASE command = "add" -> "add_route"
      [] command = "display" -> "select_route"
      [] command = "select" -> "select_all"
      [] OTHER -> "return"

\* main's dispatch on args.command: the repository operation it runs.
RepositoryOp(command) ==
    CASE command = "add" -> "add_route"
      [] command = "display" -> "select_all"
      [] command = "select" -> "select_route"
      [] OTHER -> "return"

\* ------------------------------------------------------------ Init
Init ==
    /\ db = [tables |-> {}, start |-> <<>>, route |-> <<>>]
    /\ lock = 0
    /\ pc = [p \in Procs |-> "idle"]
    /\ args = [p \in Procs |-> NoArgs]
    /\ row = [p \in Procs |-> None]
    /\ name_id = [p \in Procs |-> 0]
    /\ txn = [p \in Procs |-> NoTxn]
    /\ routes = [p \in Procs |-> <<>>]
    /\ output = [p \in Procs |-> NoOutput]
    /\ calls = [p \in Procs |-> <<>>]
    /\ conns = [p \in Procs |-> 0]
    /\ opened = [p \in Procs |-> 0]
    /\ added = {}

Running(p) == pc[p] # "idle"
AddsStarted ==
    Len(db.route) + Cardinality({p \in Procs : Running(p) /\ args[p].command = "add"})


\* ------------------------------------------------------------ main
\* main, lines 214-218: parse the command line; without a subcommand print
\* the help and return.  The bound MaxRoutes caps the add commands started.
main_parse(p) ==
    /\ pc[p] = "idle"
    /\ \E command \in Commands, first \in Firsts, second \in Seconds :
        /\ command = "add" => AddsStarted < MaxRoutes
        /\ args' = [args EXCEPT ![p] =
                [command |-> command,
                 first |-> IF command = "add" THEN first ELSE "",
                 second |-> IF command \in {"add", "select"} THEN second ELSE ""]]
        /\ IF command = ""
           THEN /\ output' = [output EXCEPT ![p] = [NoOutput EXCEPT !.help = TRUE]]
                /\ calls' = [calls EXCEPT ![p] = <<"print_help">>]
                /\ pc' = [pc EXCEPT ![p] = "done"]
           ELSE /\ output' = [output EXCEPT ![p] = NoOutput]
                /\ calls' = [calls EXCEPT ![p] = <<>>]
                /\ pc' = [pc EXCEPT ![p] = "create_db"]
    /\ UNCHANGED <<db, lock, row, name_id, txn, routes, conns, opened, added>>

\* One invocation at a time: main starts only when no other is running.
main_parse_alone(p) ==
    /\ \A q \in Procs : ~Running(q)
    /\ main_parse(p)

\* main, lines 220-221, and create_db, lines 43-69: connect, run both
\* CREATE TABLE IF NOT EXISTS statements, close.  Then dispatch (223-230).
main_create_db(p) ==
    /\ pc[p] = "create_db"
    /\ db' = create_db(db)
    /\ calls' = [calls EXCEPT ![p] = Append(@, "create_db")]
    /\ opened' = [opened EXCEPT ![p] = @ + 1]
    /\ pc' = [pc EXCEPT ![p] = RepositoryOp(args[p].command)]
    /\ UNCHANGED <<lock, args, row, name_id, txn, routes, output, conns, added>>

\* add_route, lines 76-86: connect, the lookup SELECT and fetchone().  The
\* SELECT runs outside any transaction and reads the committed rows.
add_route_select(p) ==
    /\ pc[p] = "add_route"
    /\ calls' = [calls EXCEPT ![p] = Append(@, "add_route")]
    /\ opened' = [opened EXCEPT ![p] = @ + 1]
    /\ conns' = [conns EXCEPT ![p] = @ + 1]
    /\ row' = [row EXCEPT ![p] = fetchone(SelectNameId(db, args[p].first))]
    /\ pc' = [pc EXCEPT ![p] = "fetched"]
    /\ UNCHANGED <<db, lock, args, name_id, txn, routes, output, added>>

\* add_route, lines 88-95: no start row was found; INSERT INTO start opens
\* the implicit transaction and takes the writer lock.
add_route_insert_start(p) ==
    /\ pc[p] = "fetched"
    /\ row[p] = None
    /\ lock \in {0, p}
    /\ lock' = p
    /\ txn' = [txn EXCEPT ![p].start =
                 Append(@, [name_id |-> AutoIncrement(NameIds(db.start \o @)),
                            start_point |-> args[p].first])]
    /\ name_id' = [name_id EXCEPT ![p] = lastrowid(txn'[p].start)]
    /\ pc' = [pc EXCEPT ![p] = "insert_route"]
    /\ UNCHANGED <<db, args, row, routes, output, calls, conns, opened, added>>

\* add_route, lines 96-97: a start row was found; name_id = row[0].
add_route_use_row(p) ==
    /\ pc[p] = "fetched"
    /\ row[p] # None
    /\ name_id' = [name_id EXCEPT ![p] = row[p][1]]
    /\ pc' = [pc EXCEPT ![p] = "insert_route"]
    /\ UNCHANGED <<db, lock, args, row, txn, routes, output, calls, conns,
                   opened, added>>

\* Faulty variant of add_route_insert_route: first and second bound in the wrong order.
add_route_insert_route_swapped(p) ==
    /\ pc[p] = "insert_route"
    /\ lock \in {0, p}
    /\ lock' = p
    /\ txn' = [txn EXCEPT ![p].route =
                 Append(@, [route_id |-> AutoIncrement(RouteIds(db.route \o @)),
                            name_id |-> name_id[p],
                            first_station |-> args[p].second,
                            second_station |-> args[p].first])]
    /\ pc' = [pc EXCEPT ![p] = "commit"]
    /\ UNCHANGED <<db, args, row, name_id, routes, output, calls, conns,
                   opened, added>>

\* add_route, lines 99-105: INSERT INTO route (name_id, first, second).
add_route_insert_route(p) ==
    /\ pc[p] = "insert_route"
    /\ lock \in {0, p}
    /\ lock' = p
    /\ txn' = [txn EXCEPT ![p].route =
                 Append(@, [route_id |-> AutoIncrement(RouteIds(db.route \o @)),
                            name_id |-> name_id[p],
                            first_station |-> args[p].first,
                            second_station |-> args[p].second])]
    /\ pc' = [pc EXCEPT ![p] = "commit"]
    /\ UNCHANGED <<db, args, row, name_id, routes, output, calls, conns,
                   opened, added>>

\* Faulty variant of add_route_commit: conn.commit() is missing, close() discards
\* the open transaction.
add_route_commit_missing(p) ==
    /\ pc[p] = "commit"
    /\ lock' = 0
    /\ txn' = [txn EXCEPT ![p] = NoTxn]
    /\ conns' = [conns EXCEPT ![p] = @ - 1]
    /\ added' = added \cup {<<args[p].first, args[p].second>>}
    /\ pc' = [pc EXCEPT ![p] = "done"]
    /\ UNCHANGED <<db, args, row, name_id, routes, output, calls, opened>>

\* Faulty variant of add_route_commit: conn.close() is missing.
add_route_commit_noclose(p) ==
    /\ pc[p] = "commit"
    /\ db' = [db EXCEPT !.start = @ \o txn[p].start,
                        !.route = @ \o txn[p].route]
    /\ lock' = 0
    /\ txn' = [txn EXCEPT ![p] = NoTxn]
    /\ added' = added \cup {<<args[p].first, args[p].second>>}
    /\ pc' = [pc EXCEPT ![p] = "done"]
    /\ UNCHANGED <<args, row, name_id, routes, output, calls, conns, opened>>

\* add_route, lines 106-107: conn.commit() makes the inserted rows part of
\* the store and releases the lock; conn.close().
add_route_commit(p) ==
    /\ pc[p] = "commit"
    /\ db' = [db EXCEPT !.start = @ \o txn[p].start,
                        !.route = @ \o txn[p].route]
    /\ lock' = 0
    /\ txn' = [txn EXCEPT ![p] = NoTxn]
    /\ conns' = [conns EXCEPT ![p] = @ - 1]
    /\ added' = added \cup {<<args[p].first, args[p].second>>}
    /\ pc' = [pc EXCEPT ![p] = "done"]
    /\ UNCHANGED <<args, row, name_id, routes, output, calls, opened>>

\* An INSERT that finds the writer lock held by another connection waits for
\* the busy timeout and then raises sqlite3.OperationalError: the invocation
\* aborts, its connection is never closed by the code and nothing is committed.
add_route_locked(p) ==
    /\ pc[p] \in {"insert_route"} \cup (IF row[p] = None THEN {"fetched"} ELSE {})
    /\ lock \notin {0, p}
    /\ txn' = [txn EXCEPT ![p] = NoTxn]
    /\ pc' = [pc EXCEPT ![p] = "failed"]
    /\ UNCHANGED <<db, lock, args, row, name_id, routes, output, calls, conns,
                   opened, added>>

\* main, line 227: select_all (connect, the join, close).
main_select_all(p) ==
    /\ pc[p] = "select_all"
    /\ calls' = [calls EXCEPT ![p] = Append(@, "select_all")]
    /\ opened' = [opened EXCEPT ![p] = @ + 1]
    /\ routes' = [routes EXCEPT ![p] = select_all(db)]
    /\ pc' = [pc EXCEPT ![p] = "display_routes"]
    /\ UNCHANGED <<db, lock, args, row, name_id, txn, output, conns, added>>

\* main, line 230: select_route (connect, the filtered join, close).
main_select_route(p) ==
    /\ pc[p] = "select_route"
    /\ calls' = [calls EXCEPT ![p] = Append(@, "select_route")]
    /\ opened' = [opened EXCEPT ![p] = @ + 1]
    /\ routes' = [routes EXCEPT ![p] = select_route(db, args[p].second)]
    /\ pc' = [pc EXCEPT ![p] = "display_routes"]
    /\ UNCHANGED <<db, lock, args, row, name_id, txn, output, conns, added>>

\* main, lines 227 and 230: display_routes on the list just selected.
main_display_routes(p) ==
    /\ pc[p] = "display_routes"
    /\ calls' = [calls EXCEPT ![p] = Append(@, "display_routes")]
    /\ output' = [output EXCEPT ![p] = display_routes(routes[p])]
    /\ pc' = [pc EXCEPT ![p] = "done"]
    /\ UNCHANGED <<db, lock, args, row, name_id, txn, routes, conns, opened, added>>

\* The process exits: nothing of the invocation survives but the store.
main_return(p) ==
    /\ pc[p] \in {"done", "failed"}
    /\ pc' = [pc EXCEPT ![p] = "idle"]
    /\ args' = [args EXCEPT ![p] = NoArgs]
    /\ row' = [row EXCEPT ![p] = None]
    /\ name_id' = [name_id EXCEPT ![p] = 0]
    /\ routes' = [routes EXCEPT ![p] = <<>>]
    /\ output' = [output EXCEPT ![p] = NoOutput]
    /\ calls' = [calls EXCEPT ![p] = <<>>]
    /\ conns' = [conns EXCEPT ![p] = 0]
    /\ opened' = [opened EXCEPT ![p] = 0]
    /\ UNCHANGED <<db, lock, txn, added>>

Step(p) ==
    \/ main_create_db(p)
    \/ add_route_select(p)
    \/ add_route_insert_start(p)
    \/ add_route_use_row(p)
    \/ add_route_insert_route(p)
    \/ add_route_commit(p)
    \/ main_select_all(p)
    \/ main_select_route(p)
    \/ main_display_routes(p)
    \/ main_return(p)

Next == \E p \in Procs : main_parse_alone(p) \/ Step(p)

Spec == Init /\ [][Next]_vars

NextConc == \E p \in Procs : main_parse(p) \/ Step(p) \/ add_route_locked(p)

SpecConc == Init /\ [][NextConc]_vars


\* ------------------------------------------------------------ properties
StartRows == 1..Len(db.start)
RouteRows == 1..Len(db.route)
StartRowsOf(first) == {i \in StartRows : db.start[i].start_point = first}
Count(list, r) == Cardinality({i \in 1..Len(list) : list[i] = r})
Elems(list) == {list[i] : i \in 1..Len(list)}
IsPrefix(s, t) == Len(s) <= Len(t) /\ SubSeq(t, 1, Len(s)) = s
Finished(p, command) == pc[p] = "done" /\ args[p].command = command

\* C1: with invocations run one after another from an empty store, the start
\* table holds at most one row per start_point value, and route rows added
\* with the same first value carry the same name_id.
C1_OriginUnique ==
    /\ \A f \in Firsts : Cardinality(StartRowsOf(f)) <= 1
    /\ \A i, j \in RouteRows :
          db.route[i].first_station = db.route[j].first_station
              => db.route[i].name_id = db.route[j].name_id

\* Two routes with the same first value joined to the single start row.
C1_Witness ==
    /\ Len(db.route) >= 2
    /\ db.route[1].first_station = db.route[2].first_station
    /\ db.route[1].name_id = db.route[2].name_id
    /\ Cardinality(StartRowsOf(db.route[1].first_station)) = 1

\* C2: every (first, second) pair whose add has completed is, in any later
\* display, a record returned by select_all (and a line of the printed table).
C2_AddedIsDisplayed ==
    \A p \in Procs :
        (args[p].command = "display" /\ pc[p] \in {"display_routes", "done"}) =>
            \A pair \in added :
                /\ \E i \in 1..Len(routes[p]) :
                      /\ routes[p][i].start_point = pair[1]
                      /\ routes[p][i].second_station = pair[2]
                /\ pc[p] = "done" =>
                      \E i \in 1..Len(output[p].table) :
                          output[p].table[i] = <<i, pair[1], pair[2]>>

\* A display finished after two different pairs had been added.
C2_Witness ==
    \E p \in Procs : Finished(p, "display") /\ Cardinality(added) >= 2

\* C3: select_route(X) returns exactly the records of select_all whose
\* second_station equals X, each as often as select_all returns it; X is
\* compared exactly (case-sensitive).
FilteredBy(sel, all, X) ==
    \A r \in Elems(all) \cup Elems(sel) :
        Count(sel, r) = IF r.second_station = X THEN Count(all, r) ELSE 0
C3_SelectIsFilter ==
    /\ \A X \in Seconds \cup {"Perm"} :
          FilteredBy(select_route(db, X), select_all(db), X)
    /\ \A p \in Procs :
          (args[p].command = "select" /\ pc[p] \in {"display_routes", "done"})
              => FilteredBy(routes[p], select_all(db), args[p].second)

\* After add(Moscow, Kazan) and add(Moscow, Omsk), select Kazan has printed
\* exactly one line: Moscow, Kazan.
C3_Witness ==
    \E p \in Procs :
        /\ Finished(p, "select") /\ args[p].second = "Kazan"
        /\ added = {<<"Moscow", "Kazan">>, <<"Moscow", "Omsk">>}
        /\ Len(db.route) = 2
        /\ output[p].table = <<(<<1, "Moscow", "Kazan">>)>>

\* C4: every route row's name_id is the name_id of an existing start row,
\* and select_all returns exactly one record per route row.
C4_ReferentialIntegrity ==
    /\ \A i \in RouteRows : db.route[i].name_id \in NameIds(db.start)
    /\ Len(select_all(db)) = Len(db.route)

\* Routes from two different origins are stored.
C4_Witness ==
    /\ Len(db.start) >= 2
    /\ Len(db.route) >= 3

\* C5: create_db on a store that already has both tables leaves the tables
\* and all rows unchanged; a second create_db changes nothing.
C5_CreateDbIdempotent ==
    [][\A p \in Procs :
          (pc[p] = "create_db" /\ pc'[p] # "create_db") =>
              /\ db.tables = {"start", "route"} => db' = db
              /\ db'.start = db.start /\ db'.route = db.route
              /\ db'.tables = {"start", "route"}
              /\ create_db(db') = db']_vars

\* create_db has just run on a store that already held rows.
C5_Witness ==
    \E p \in Procs :
        /\ calls[p] = <<"create_db">>
        /\ Len(db.route) >= 2

\* C6: main calls create_db first, then exactly one repository operation,
\* then display_routes for display and select only; without a subcommand it
\* prints the help and calls neither create_db nor a repository operation.
Expected(command) ==
    CASE command = "add" -> <<"create_db", "add_route">>
      [] command = "display" -> <<"create_db", "select_all", "display_routes">>
      [] command = "select" -> <<"create_db", "select_route", "display_routes">>
      [] OTHER -> <<"print_help">>
C6_CommandOrdering ==
    \A p \in Procs : Running(p) =>
        /\ IsPrefix(calls[p], Expected(args[p].command))
        /\ pc[p] = "done" => calls[p] = Expected(args[p].command)
        /\ (pc[p] = "done" /\ args[p].command = "") =>
              opened[p] = 0 /\ output[p].help

\* A select command has run to its end.
C6_Witness ==
    \E p \in Procs :
        /\ Finished(p, "select")
        /\ calls[p] = <<"create_db", "select_route", "display_routes">>

\* C7 as stated: a finished subcommand invocation has opened one connection
\* and left none open.
C7_OneConnection ==
    \A p \in Procs :
        (pc[p] = "done" /\ args[p].command # "") =>
            opened[p] = 1 /\ conns[p] = 0

\* C7 amended: a finished subcommand invocation has opened two connections
\* (create_db's, then the repository operation's), never holds more than one
\* at a time, and has left none open.
C7_TwoConnections ==
    \A p \in Procs :
        /\ conns[p] <= 1
        /\ (pc[p] = "done" /\ args[p].command # "") =>
              opened[p] = 2 /\ conns[p] = 0
        /\ (pc[p] = "done" /\ args[p].command = "") =>
              opened[p] = 0 /\ conns[p] = 0

\* An add command has run to its end.
C7_Witness ==
    \E p \in Procs : Finished(p, "add") /\ opened[p] = 2 /\ conns[p] = 0

\* C8: add_route adds exactly one route row (name_id of the origin, first,
\* second), adds one start row exactly when none with start_point = first
\* existed, and leaves every existing row as it was; no other step changes
\* a row.
Extends(new, old, n) ==
    Len(new) = Len(old) + n /\ SubSeq(new, 1, Len(old)) = old
C8_AddRouteEffect ==
    [][LET adding == {p \in Procs : pc[p] = "commit" /\ pc'[p] = "done"}
       IN  IF adding = {}
           THEN db'.start = db.start /\ db'.route = db.route
           ELSE \A p \in adding :
                LET existed == StartRowsOf(args[p].first) # {}
                    r == db'.route[Len(db'.route)]
                IN  /\ Extends(db'.route, db.route, 1)
                    /\ r.first_station = args[p].first
                    /\ r.second_station = args[p].second
                    /\ \E i \in 1..Len(db'.start) :
                          /\ db'.start[i].name_id = r.name_id
                          /\ db'.start[i].start_point = args[p].first
                    /\ IF existed
                       THEN db'.start = db.start
                       ELSE /\ Extends(db'.start, db.start, 1)
                            /\ db'.start[Len(db'.start)].start_point = args[p].first
      ]_vars

\* An add whose origin already existed has completed.
C8_Witness ==
    \E p \in Procs :
        /\ Finished(p, "add") /\ row[p] # None
        /\ Len(db.start) >= 2 /\ Len(db.route) >= 3

\* C9: when add_route invocations with the same first value interleave, the
\* start table still ends with at most one row whose start_point is first.
C9_ConcurrentOriginUnique ==
    (\A p \in Procs : pc[p] \in {"idle", "done", "failed"}) =>
        \A f \in Firsts : Cardinality(StartRowsOf(f)) <= 1

\* C10: each route row's first_station equals the start_point of the start
\* row it references, so every record of select_all and select_route has
\* start_point = first_station and printing the first leg instead of the
\* origin would print the same table.
DisplayFirstLeg(list) ==
    [i \in 1..Len(list) |-> <<i, list[i].first_station, list[i].second_station>>]
C10_FirstLegIsOrigin ==
    /\ \A i \in RouteRows : \A j \in StartRows :
          db.start[j].name_id = db.route[i].name_id
              => db.route[i].first_station = db.start[j].start_point
    /\ \A r \in Elems(select_all(db)) : r.start_point = r.first_station
    /\ \A X \in Seconds : \A r \in Elems(select_route(db, X)) :
          r.start_point = r.first_station
    /\ \A p \in Procs :
          display_routes(routes[p]).table = DisplayFirstLeg(routes[p])

\* A display has printed routes of two different origins.
C10_Witness ==
    \E p \in Procs :
        /\ Finished(p, "display")
        /\ Len(output[p].table) >= 2
        /\ \E i, j \in 1..Len(routes[p]) :
              routes[p][i].start_point # routes[p][j].start_point

====
